---- MODULE Spec2Model ----
(***************************************************************************)
(* Model of common/src/project.rs: the ProjectName newtype, its validation *)
(* predicate ProjectName::is_valid, the constructors (new, from_str,       *)
(* Deserialize, and the Decode that derive(sqlx::Type) generates for the   *)
(* transparent wrapper), the read accessors, and the once-initialised      *)
(* reserved-word cell.                                                     *)
(*                                                                         *)
(* A Rust &str is modelled as a sequence of characters; a character is a   *)
(* one-character TLA+ string (the name "U+00E9" stands for the two-byte    *)
(* character e-acute).  Utf8 gives the bytes of a character, so len() and  *)
(* bytes() are computed over bytes as the code computes them.              *)
(***************************************************************************)
EXTENDS Integers, Sequences, FiniteSets, TLC

VARIABLES
    INSTANCE_cell,  \* static INSTANCE: OnceCell<HashSet<&str>> (state, value)
    inits,          \* how many times the get_or_init closure has run
    origin,         \* the call that built the values now alive: [op, input]
    outcome,        \* the last call and what it returned: [op, arg, res]
    live,           \* the ProjectName values now alive, oldest first
    wire,           \* the last serialised form, or None
    shown,          \* the last Display / Deref output, or None
    pc,             \* per thread: position inside is_valid / is_reserved
    arg,            \* per thread: the name passed to is_valid
    building,       \* per thread: the HashSet the closure is building
    seen,           \* per thread: the set the lookup read from the cell
    ret,            \* per thread: what is_valid returned
    todo,           \* reordered evaluation: the checks not yet evaluated
    verdict         \* reordered evaluation: the conjunction so far

vars == <<INSTANCE_cell, inits, origin, outcome, live, wire, shown,
          pc, arg, building, seen, ret, todo, verdict>>

\* Option::None and Option::Some.
None == [kind |-> "none"]

Some(v) == [kind |-> "some", v |-> v]

-----------------------------------------------------------------------------
(* Characters and their UTF-8 encoding.                                    *)

LowerAlpha ==
    <<"a", "b", "c", "d", "e", "f", "g", "h", "i", "j", "k", "l", "m",
      "n", "o", "p", "q", "r", "s", "t", "u", "v", "w", "x", "y", "z">>

UpperAlpha ==
    <<"A", "B", "C", "D", "E", "F", "G", "H", "I", "J", "K", "L", "M",
      "N", "O", "P", "Q", "R", "S", "T", "U", "V", "W", "X", "Y", "Z">>

Digits == <<"0", "1", "2", "3", "4", "5", "6", "7", "8", "9">>

Range(seq) == {seq[i] : i \in DOMAIN seq}

IndexIn(seq, c) == CHOOSE i \in DOMAIN seq : seq[i] = c

\* The bytes of one character.
Utf8(c) ==
    IF c \in Range(LowerAlpha) THEN <<96 + IndexIn(LowerAlpha, c)>>
    ELSE IF c \in Range(UpperAlpha) THEN <<64 + IndexIn(UpperAlpha, c)>>
    ELSE IF c \in Range(Digits) THEN <<47 + IndexIn(Digits, c)>>
    ELSE CASE c = "-" -> <<45>>
           [] c = "_" -> <<95>>
           [] c = "." -> <<46>>
           [] c = "@" -> <<64>>
           [] c = " " -> <<32>>
           [] c = "U+00E9" -> <<195, 169>>

RECURSIVE bytes(_)
\* str::bytes: the UTF-8 bytes of the string, in order.
bytes(name) ==
    IF name = <<>> THEN <<>> ELSE Utf8(Head(name)) \o bytes(Tail(name))

\* str::len: the length in bytes.
len(name) == Len(bytes(name))

is_empty(name) == len(name) = 0

starts_with(name, ch) == Len(name) > 0 /\ name[1] = ch

ends_with(name, ch) == Len(name) > 0 /\ name[Len(name)] = ch

\* name contains needle as a contiguous run of characters.
Contains(name, needle) ==
    \E i \in 1..(Len(name) - Len(needle) + 1) :
        SubSeq(name, i, i + Len(needle) - 1) = needle

-----------------------------------------------------------------------------
(* The labels of the unit tests valid_labels and invalid_labels.           *)

Exactly16 ==
    <<"e", "x", "a", "c", "t", "l", "y", "-", "1", "6", "-", "c", "h", "a", "r", "s">>

CondomLabel ==
    <<"t", "e", "s", "t", "-", "c", "o", "n", "d", "o", "m", "-", "c", "o", "n", "d", "o", "m">>

Shuttle == <<"s", "h", "u", "t", "t", "l", "e">>

ShuttleApp == <<"s", "h", "u", "t", "t", "l", "e", "a", "p", "p">>

Console == <<"c", "o", "n", "s", "o", "l", "e">>

Unstable == <<"u", "n", "s", "t", "a", "b", "l", "e">>

Staging == <<"s", "t", "a", "g", "i", "n", "g">>

LowercaseLabel == <<"l", "o", "w", "e", "r", "c", "a", "s", "e">>

ValidLabels ==
    { <<"5", "0", "-", "n", "a", "m", "e">>,
      <<"2", "3", "5", "2", "3", "5">>,
      <<"1", "2", "3">>,
      <<"k", "e", "b", "a", "b", "-", "c", "a", "s", "e">>,
      LowercaseLabel,
      <<"m", "y", "a", "s", "s", "e", "t", "s">>,
      <<"d", "a", "c", "h", "t", "e", "r", "r", "a", "s", "s", "e">>,
      <<"a", "n", "o", "t", "h", "e", "r", "-", "v", "a", "l", "i", "d", "-",
        "p", "r", "o", "j", "e", "c", "t", "-", "n", "a", "m", "e">>,
      <<"x">> }

InvalidLabels ==
    { <<"U", "P", "P", "E", "R", "C", "A", "S", "E">>,
      <<"C", "a", "m", "e", "l", "C", "a", "s", "e">>,
      <<"p", "a", "s", "c", "a", "l", "C", "a", "s", "e">>,
      <<"I", "n", "V", "a", "L", "i", "d">>,
      <<"-", "i", "n", "v", "a", "l", "i", "d", "-", "n", "a", "m", "e">>,
      <<"a", "l", "s", "o", "-", "i", "n", "v", "a", "l", "i", "d", "-">>,
      <<"a", "s", "d", "f", "@", "f", "a", "s", "d">>,
      <<"@", "a", "s", "d", "f", "l">>,
      <<"a", "s", "d", " ", "f", "@">>,
      <<".", "i", "n", "v", "a", "l", "i", "d">>,
      <<"i", "n", "v", "a", "l", "i", "d", ".", "n", "a", "m", "e">>,
      <<"i", "n", "v", "a", "l", "i", "d", ".", "n", "a", "m", "e", ".">>,
      <<"_", "_", "d", "u", "n", "d", "e", "r", "_", "l", "i", "k", "e", "_", "_">>,
      <<"_", "_", "i", "n", "v", "a", "l", "i", "d">>,
      <<"i", "n", "v", "a", "l", "i", "d", "_", "_">>,
      CondomLabel,
      <<"s", "_", "_", "_", "_", "_", "_", "_", "_", "e">>,
      <<"s", "n", "a", "k", "e", "_", "c", "a", "s", "e">>,
      Exactly16 \o Exactly16 \o Exactly16 \o Exactly16,
      Shuttle,
      ShuttleApp,
      <<>> }

-----------------------------------------------------------------------------
(* The content classifier (rustrict).  The crate is an external dependency *)
(* of the repository; its word list is not part of the source.  It is      *)
(* modelled as a pure function of the raw text that rates a text MODERATE  *)
(* when it contains a text the unit tests show to be rejected for content  *)
(* alone (test-condom-condom, line 146), and rates nothing else.           *)

FlaggedTexts == {CondomLabel}

MODERATE_OR_HIGHER == {"MODERATE", "SEVERE"}

\* Censor::from_str(name).censor_and_analyze(): the analysis of the pair
\* (the censored text is dropped by the caller).
censor_and_analyze(name) ==
    LET hit == \E f \in FlaggedTexts : Contains(name, f)
    IN  [analysis |-> IF hit THEN {"MODERATE"} ELSE {}]

\* Type::is: the analysis has a bit of the mask.
Is(analysis, mask) == analysis \cap mask # {}

is_profanity_free(name) ==
    LET analysis == censor_and_analyze(name).analysis
    IN  ~Is(analysis, MODERATE_OR_HIGHER)

-----------------------------------------------------------------------------
(* is_valid_char and the length limit.                                     *)

\* A plausible slip: the range also takes the ASCII upper-case letters.
is_valid_char_any_case(byte) ==
    byte \in (97..122) \cup (65..90) \cup (48..57) \cup {45}

is_valid_char(byte) == byte \in (97..122) \cup (48..57) \cup {45}

\* name.bytes().all(is_valid_char)
all_valid_chars(name) ==
    LET bs == bytes(name) IN \A i \in DOMAIN bs : is_valid_char(bs[i])

\* A plausible slip: <= in place of <.
length_ok_inclusive(name) == len(name) <= 64

\* name.len() < 64
length_ok(name) == len(name) < 64

-----------------------------------------------------------------------------
(* The reserved-word cell, as one sequential caller sees it.               *)

\* OnceCell::new()
EmptyCell == [state |-> "Incomplete", value |-> None]

\* HashSet::from(["shuttleapp", "shuttle", "console", "unstable", "staging"]),
\* in insertion order.
ReservedList == <<ShuttleApp, Shuttle, Console, Unstable, Staging>>

ReservedInit == Range(ReservedList)

\* OnceCell::get_or_init run to completion by one caller.
get_or_init(cell, value) ==
    IF cell.state = "Complete" THEN cell
    ELSE [state |-> "Complete", value |-> Some(value)]

\* OnceCell::get
get(cell) == IF cell.state = "Complete" THEN cell.value ELSE None

\* A plausible slip: the lookup reads the cell before get_or_init fills it
\* and takes an unset cell to hold no reserved word.
is_reserved_lookup_first(name, cell) ==
    LET found == get(cell)
        after == get_or_init(cell, ReservedInit)
    IN  [panicked |-> FALSE,
         ret      |-> found # None /\ name \in found.v,
         cell     |-> after]

\* is_reserved: the panicked field is the expect("Reserved words not set").
is_reserved(name, cell) ==
    LET after == get_or_init(cell, ReservedInit)
        found == get(after)
    IN  [panicked |-> found = None,
         ret      |-> found # None /\ name \in found.v,
         cell     |-> after]

\* ProjectName::is_valid: the short-circuit conjunction of lines 51-57;
\* cell is the reserved-word cell before the call, the result carries the
\* cell after it.
is_valid(name, cell) ==
    IF is_empty(name) THEN [panicked |-> FALSE, ret |-> FALSE, cell |-> cell]
    ELSE IF ~length_ok(name) THEN [panicked |-> FALSE, ret |-> FALSE, cell |-> cell]
    ELSE IF starts_with(name, "-") THEN [panicked |-> FALSE, ret |-> FALSE, cell |-> cell]
    ELSE IF ends_with(name, "-") THEN [panicked |-> FALSE, ret |-> FALSE, cell |-> cell]
    ELSE LET r == is_reserved(name, cell)
         IN  IF r.panicked THEN [panicked |-> TRUE, ret |-> FALSE, cell |-> r.cell]
             ELSE IF r.ret THEN [panicked |-> FALSE, ret |-> FALSE, cell |-> r.cell]
             ELSE [panicked |-> FALSE,
                   ret      |-> all_valid_chars(name) /\ is_profanity_free(name),
                   cell     |-> r.cell]

-----------------------------------------------------------------------------
(* The newtype, its error and its constructors.                            *)

\* pub struct ProjectName(String)
ProjectName(string) == [inner |-> string]

\* pub struct InvalidProjectName: a unit struct.
InvalidProjectName == [type |-> "InvalidProjectName"]

\* The #[error(...)] text of InvalidProjectName, line by line: a literal with
\* no field in it (the source writes the dash between backticks, which a
\* TLA+ string cannot hold; apostrophes stand for them).
InvalidProjectNameText ==
    <<"Invalid project name. Project names must:",
      "    1. only contain lowercase alphanumeric characters or dashes '-'.",
      "    2. not start or end with a dash.",
      "    3. not be empty.",
      "    4. be shorter than 64 characters.",
      "    5. not contain any profanities.",
      "    6. not be a reserved word.">>

\* Display of an error value.
ErrorMessage(err) ==
    IF err.type = "InvalidProjectName" THEN InvalidProjectNameText
    ELSE err.msg

Ok(v) == [tag |-> "Ok", val |-> v]

Err(e) == [tag |-> "Err", err |-> e]

Panic == [tag |-> "Panic"]

\* str::to_owned: a new String with the same characters.
to_owned(name) == [i \in 1..Len(name) |-> name[i]]

\* The first rule of lines 51-57 that name breaks (0: none).
FirstBroken(name) ==
    IF is_empty(name) THEN 1
    ELSE IF ~length_ok(name) THEN 2
    ELSE IF starts_with(name, "-") THEN 3
    ELSE IF ends_with(name, "-") THEN 4
    ELSE IF name \in ReservedInit THEN 5
    ELSE IF ~all_valid_chars(name) THEN 6
    ELSE IF ~is_profanity_free(name) THEN 7
    ELSE 0

\* A plausible slip: the constructor wraps the name without the check.
new_unchecked(name, cell) ==
    [res |-> Ok(ProjectName(to_owned(name))), cell |-> cell]

\* A plausible slip: the name is normalised (its last character dropped when
\* it is a digit, as a trim would) before it is stored.
new_trimmed(name, cell) ==
    LET v == is_valid(name, cell)
        kept == IF Len(name) > 1 /\ name[Len(name)] \in Range(Digits)
                THEN SubSeq(name, 1, Len(name) - 1) ELSE name
    IN  [res  |-> IF v.ret THEN Ok(ProjectName(to_owned(kept)))
                  ELSE Err(InvalidProjectName),
         cell |-> v.cell]

\* A plausible slip: the error names the rule that failed.
new_with_reason(name, cell) ==
    LET v == is_valid(name, cell)
    IN  [res  |-> IF v.ret THEN Ok(ProjectName(to_owned(name)))
                  ELSE Err([type |-> "InvalidProjectName", rule |-> FirstBroken(name)]),
         cell |-> v.cell]

\* ProjectName::new
new(name, cell) ==
    LET v == is_valid(name, cell)
    IN  [res  |-> IF v.panicked THEN Panic
                  ELSE IF v.ret THEN Ok(ProjectName(to_owned(name)))
                  ELSE Err(InvalidProjectName),
         cell |-> v.cell]

\* impl FromStr for ProjectName
from_str(s, cell) == new(s, cell)

\* s.parse(): str::parse calls FromStr::from_str.
parse(s, cell) == from_str(s, cell)

-----------------------------------------------------------------------------
(* serde: the data model of a self-describing format.  A document is a     *)
(* string, a number or null.                                               *)

StrDoc(text) == [kind |-> "str", text |-> text]

NullDoc == [kind |-> "null"]

NumDoc == [kind |-> "u64"]

\* Serializer::serialize_str
serialize_str(string) == StrDoc(to_owned(string))

\* Serializer::serialize_newtype_struct: the format writes the inner value.
serialize_newtype_struct(name, doc) == doc

\* derive(Serialize) on the newtype.
Serialize(pn) == serialize_newtype_struct("ProjectName", serialize_str(pn.inner))

\* String::deserialize: a string document gives its text, another an error.
StringDeserialize(doc) ==
    IF doc.kind = "str" THEN Ok(to_owned(doc.text))
    ELSE Err([type |-> "de::Error", msg |-> <<"invalid type: expected a string">>])

\* DeError::custom(e): the message is e's Display text.
DeErrorCustom(err) == [type |-> "de::Error", msg |-> ErrorMessage(err)]

\* impl Deserialize for ProjectName
deserialize(doc, cell) ==
    LET s == StringDeserialize(doc)
    IN  IF s.tag = "Err" THEN [res |-> s, cell |-> cell]
        ELSE LET r == parse(s.val, cell)
             IN  [res  |-> IF r.res.tag = "Err" THEN Err(DeErrorCustom(r.res.err))
                           ELSE r.res,
                  cell |-> r.cell]

\* derive(sqlx::Type) with sqlx(transparent) (feature "backend") expands to
\* Type, Encode and Decode for the newtype; Decode is
\* <String as Decode>::decode(value).map(Self): a text column value is wrapped
\* as it is, NULL is an error.
sqlx_decode(value, cell) ==
    [res  |-> IF value.kind = "str" THEN Ok(ProjectName(to_owned(value.text)))
              ELSE Err([type |-> "sqlx::Error", msg |-> <<"unexpected null">>]),
     cell |-> cell]

\* derive(Clone)
Clone(pn) == ProjectName(to_owned(pn.inner))

\* impl Deref: &self.0
deref(pn) == pn.inner

\* impl Display: self.0.fmt(f) writes the characters to the formatter.
fmt(pn, buffer) == buffer \o pn.inner

\* ToString::to_string: Display into an empty buffer.
to_string(pn) == fmt(pn, <<>>)

-----------------------------------------------------------------------------
(* The inputs: the labels of the unit tests, the reserved words, every     *)
(* concatenation of at most MaxParts pieces, and LowercaseLabel (9 bytes)  *)
(* repeated up to MaxPad times with at most one piece after it: 7          *)
(* repetitions are 63 bytes, the longest name the length check lets pass.  *)

MaxParts == 2

MaxPad == 7

MaxLive == 2

Pieces ==
    { <<"q">>, <<"5">>, <<"-">>, <<"U">>, <<"_">>, <<"U+00E9">>,
      <<"a", "p", "p">>, Shuttle, CondomLabel }

RECURSIVE Joined(_)
Joined(n) ==
    IF n = 0 THEN {<<>>}
    ELSE LET shorter == Joined(n - 1)
         IN  shorter \cup {a \o p : a \in shorter, p \in Pieces}

RECURSIVE Repeat(_, _)
Repeat(string, k) == IF k = 0 THEN <<>> ELSE string \o Repeat(string, k - 1)

Padded ==
    {Repeat(LowercaseLabel, k) \o p : k \in 1..MaxPad, p \in Pieces \cup {<<>>}}

Names == Joined(MaxParts) \cup Padded \cup ValidLabels \cup InvalidLabels \cup ReservedInit

Docs == {StrDoc(s) : s \in Names} \cup {NullDoc, NumDoc}

-----------------------------------------------------------------------------
(* One client after another: a call that validates or constructs a        *)
(* candidate, then clones, reads, serialises and deserialises the value    *)
(* it got, then drops its values (Drop: their scope ends) before the next  *)
(* candidate.  The reserved-word cell outlives the clients.                *)

NumThreads == 2

Threads == 1..NumThreads

Init ==
    /\ INSTANCE_cell = EmptyCell
    /\ inits = 0
    /\ origin = None
    /\ outcome = None
    /\ live = <<>>
    /\ wire = None
    /\ shown = None
    /\ pc = [t \in Threads |-> "idle"]
    /\ arg = [t \in Threads |-> <<>>]
    /\ building = [t \in Threads |-> {}]
    /\ seen = [t \in Threads |-> None]
    /\ ret = [t \in Threads |-> None]
    /\ todo = {}
    /\ verdict = TRUE

threadVars == <<pc, arg, building, seen, ret>>

orderVars == <<todo, verdict>>

\* The closure of get_or_init has run once more when a call found the cell
\* unset and left it set.
Ran(before, after) ==
    IF before.state # "Complete" /\ after.state = "Complete" THEN 1 ELSE 0

\* A constructing call op on input gave r = [res, cell].
Start(op, input, r) ==
    /\ origin = None
    /\ origin' = [op |-> op, input |-> input]
    /\ outcome' = [op |-> op, arg |-> input, res |-> r.res]
    /\ live' = IF r.res.tag = "Ok" THEN <<r.res.val>> ELSE <<>>
    /\ wire' = None
    /\ shown' = None
    /\ INSTANCE_cell' = r.cell
    /\ inits' = inits + Ran(INSTANCE_cell, r.cell)
    /\ UNCHANGED <<threadVars, orderVars>>

\* ProjectName::is_valid(s), the predicate on its own: no value is made.
CallIsValid(s) ==
    LET v == is_valid(s, INSTANCE_cell)
    IN  Start("is_valid", s,
              [res  |-> IF v.panicked THEN Panic ELSE [tag |-> "Bool", val |-> v.ret],
               cell |-> v.cell])

CallNew(s) == Start("new", s, new(s, INSTANCE_cell))

CallFromStr(s) == Start("from_str", s, from_str(s, INSTANCE_cell))

CallDeserialize(doc) == Start("deserialize", doc, deserialize(doc, INSTANCE_cell))

CallSqlxDecode(value) == Start("sqlx_decode", value, sqlx_decode(value, INSTANCE_cell))

CallClone(i) ==
    /\ Len(live) < MaxLive
    /\ live' = Append(live, Clone(live[i]))
    /\ UNCHANGED <<INSTANCE_cell, inits, origin, outcome, wire, shown,
                   threadVars, orderVars>>

CallSerialize(i) ==
    /\ wire' = Serialize(live[i])
    /\ UNCHANGED <<INSTANCE_cell, inits, origin, outcome, live, shown,
                   threadVars, orderVars>>

\* Deserialize what Serialize wrote.
CallDeserializeWire ==
    /\ wire # None
    /\ Len(live) < MaxLive
    /\ LET r == deserialize(wire, INSTANCE_cell)
       IN  /\ outcome' = [op |-> "deserialize_wire", arg |-> wire, res |-> r.res]
           /\ live' = IF r.res.tag = "Ok" THEN Append(live, r.res.val) ELSE live
           /\ INSTANCE_cell' = r.cell
           /\ inits' = inits + Ran(INSTANCE_cell, r.cell)
    /\ UNCHANGED <<origin, wire, shown, threadVars, orderVars>>

CallDisplay(i) ==
    /\ shown' = [op |-> "display", of |-> i, text |-> to_string(live[i])]
    /\ UNCHANGED <<INSTANCE_cell, inits, origin, outcome, live, wire,
                   threadVars, orderVars>>

CallDeref(i) ==
    /\ shown' = [op |-> "deref", of |-> i, text |-> deref(live[i])]
    /\ UNCHANGED <<INSTANCE_cell, inits, origin, outcome, live, wire,
                   threadVars, orderVars>>

\* The values go out of scope.
Drop ==
    /\ origin # None
    /\ origin' = None
    /\ outcome' = None
    /\ live' = <<>>
    /\ wire' = None
    /\ shown' = None
    /\ UNCHANGED <<INSTANCE_cell, inits, threadVars, orderVars>>

Next ==
    \/ \E s \in Names : CallIsValid(s)
    \/ \E s \in Names : CallNew(s)
    \/ \E s \in Names : CallFromStr(s)
    \/ \E doc \in Docs : CallDeserialize(doc)
    \/ \E value \in Docs \ {NumDoc} : CallSqlxDecode(value)
    \/ \E i \in DOMAIN live : CallClone(i)
    \/ \E i \in DOMAIN live : CallSerialize(i)
    \/ CallDeserializeWire
    \/ \E i \in DOMAIN live : CallDisplay(i)
    \/ \E i \in DOMAIN live : CallDeref(i)
    \/ Drop

Spec == Init /\ [][Next]_vars

-----------------------------------------------------------------------------
(* Properties of the sequential calls.                                     *)

\* What is_valid returns for s (the cell it starts from does not matter to
\* a sequential caller; C8 checks that).
Valid(s) == is_valid(s, EmptyCell).ret

Constructors == {"new", "from_str"}

Decoders == {"deserialize", "deserialize_wire", "sqlx_decode"}

\* C1: every ProjectName value that exists holds a string that is_valid
\* accepts, whichever exposed operation made it.
C1_EveryLiveValueIsValid ==
    \A i \in DOMAIN live : Valid(deref(live[i]))

\* C2: new and from_str return Ok exactly when is_valid accepts the input and
\* Err(InvalidProjectName) exactly when it rejects it; a rejected input
\* leaves no value behind.
C2_OkExactlyWhenValid ==
    (outcome # None /\ outcome.op \in Constructors) =>
        /\ (outcome.res.tag = "Ok") <=> Valid(outcome.arg)
        /\ (outcome.res = Err(InvalidProjectName)) <=> ~Valid(outcome.arg)
        /\ ~Valid(outcome.arg) => live = <<>>
        /\ Valid(outcome.arg) => live # <<>>

C2_Witness ==
    /\ outcome # None
    /\ outcome.op = "from_str"
    /\ outcome.res.tag = "Err"
    /\ FirstBroken(outcome.arg) = 5

\* C3: every path that decodes a ProjectName yields a value only for a string
\* that is_valid accepts and an error for every other string.
C3_EveryDecodeValidates ==
    (outcome # None /\ outcome.op \in Decoders /\ outcome.arg.kind = "str") =>
        /\ outcome.res.tag = "Ok" => Valid(outcome.arg.text)
        /\ ~Valid(outcome.arg.text) => outcome.res.tag = "Err"

\* C4: a value made by new from a valid s has s as its underlying string, its
\* Display output and its serialised form, and deserialising the serialised
\* form gives a value equal to the first.
C4_ExactCopyAndRoundTrip ==
    (origin # None /\ origin.op = "new" /\ Valid(origin.input)) =>
        /\ live # <<>>
        /\ \A i \in DOMAIN live : deref(live[i]) = origin.input
        /\ shown # None => shown.text = origin.input
        /\ wire # None => wire = StrDoc(origin.input)
        /\ outcome.op = "deserialize_wire" =>
               /\ outcome.res.tag = "Ok"
               /\ outcome.res.val = live[1]

C4_Witness ==
    /\ origin # None
    /\ origin.op = "new"
    /\ Len(origin.input) > 1
    /\ outcome.op = "deserialize_wire"
    /\ outcome.res.tag = "Ok"
    /\ shown # None
    /\ shown.op = "display"
    /\ Len(live) = MaxLive

\* The seven rules as the documentation words them, over characters.
AllowedChars == Range(LowerAlpha) \cup Range(Digits) \cup {"-"}

ForbiddenSamples == Range(UpperAlpha) \cup {"_", ".", "@", " "}

SevenRules(s) ==
    /\ Len(s) >= 1
    /\ Len(s) < 64
    /\ s[1] # "-"
    /\ s[Len(s)] # "-"
    /\ s \notin {ShuttleApp, Shuttle, Console, Unstable, Staging}
    /\ \A i \in DOMAIN s : s[i] \in AllowedChars
    /\ ~Is(censor_and_analyze(s).analysis, MODERATE_OR_HIGHER)

\* C5: is_valid(s) is true exactly when s passes all seven rules; upper case,
\* '_', '.', '@' and white space anywhere make s invalid, and the labels of
\* the unit tests get the results the tests assert.
C5_ValidIffSevenRules ==
    (outcome # None /\ outcome.op = "is_valid") =>
        /\ outcome.res.tag = "Bool"
        /\ outcome.res.val <=> SevenRules(outcome.arg)
        /\ (\E i \in DOMAIN outcome.arg : outcome.arg[i] \in ForbiddenSamples)
               => ~outcome.res.val
        /\ outcome.arg \in ValidLabels => outcome.res.val
        /\ outcome.arg \in InvalidLabels => ~outcome.res.val

C5_Witness ==
    /\ outcome # None
    /\ outcome.op = "is_valid"
    /\ outcome.arg = <<"q", "U">>
    /\ ~outcome.res.val

\* A name that breaks no rule but, perhaps, the length limit.
WellFormed(s) ==
    /\ Len(s) >= 1
    /\ s[1] # "-"
    /\ s[Len(s)] # "-"
    /\ s \notin {ShuttleApp, Shuttle, Console, Unstable, Staging}
    /\ \A i \in DOMAIN s : s[i] \in AllowedChars
    /\ ~Is(censor_and_analyze(s).analysis, MODERATE_OR_HIGHER)

\* C6: a well-formed name of 63 characters is valid, a well-formed name of 64
\* characters or more is not: no valid name is longer than 63.
C6_LengthBoundary ==
    (outcome # None /\ outcome.op = "is_valid") =>
        /\ (WellFormed(outcome.arg) /\ Len(outcome.arg) = 63) => outcome.res.val
        /\ (WellFormed(outcome.arg) /\ Len(outcome.arg) >= 64) => ~outcome.res.val
        /\ outcome.res.val => Len(outcome.arg) <= 63

C6_Witness ==
    /\ outcome # None
    /\ outcome.op = "is_valid"
    /\ WellFormed(outcome.arg)
    /\ Len(outcome.arg) = 63
    /\ outcome.res.val

\* One rejected input for each rule, from the unit tests.
RejectSamples ==
    { <<>>,
      Exactly16 \o Exactly16 \o Exactly16 \o Exactly16,
      <<"-", "i", "n", "v", "a", "l", "i", "d", "-", "n", "a", "m", "e">>,
      <<"a", "l", "s", "o", "-", "i", "n", "v", "a", "l", "i", "d", "-">>,
      Shuttle,
      <<"U", "P", "P", "E", "R", "C", "A", "S", "E">>,
      CondomLabel }

\* C9: the error of a rejected input equals the error of every other rejected
\* input, whatever rule each broke, and its message is the one fixed text.
C9_ErrorsIndistinguishable ==
    (outcome # None /\ outcome.op \in Constructors /\ outcome.res.tag = "Err") =>
        \A r \in RejectSamples :
            LET other == new(r, INSTANCE_cell).res
            IN  /\ other.tag = "Err"
                /\ other.err = outcome.res.err
                /\ ErrorMessage(other.err) = ErrorMessage(outcome.res.err)
                /\ ErrorMessage(other.err) = InvalidProjectNameText

C9_Witness ==
    /\ outcome # None
    /\ outcome.op = "new"
    /\ outcome.res.tag = "Err"
    /\ FirstBroken(outcome.arg) = 7
    /\ {FirstBroken(r) : r \in RejectSamples} = 1..7

-----------------------------------------------------------------------------
(* Concurrent callers of is_valid.  Each thread runs lines 51-57 in order; *)
(* the steps of is_reserved that touch the shared cell are separate        *)
(* actions.  OnceCell::get_or_init is the once_cell crate's: a caller that *)
(* finds the cell unset moves it from Incomplete to Running with a         *)
(* compare-and-swap, runs the closure, writes the value and only then      *)
(* marks the cell Complete; a caller that finds it Running blocks until it *)
(* is Complete.                                                            *)

seqVars == <<origin, outcome, live, wire, shown>>

ConcNames == {Shuttle, <<"x">>, <<"-">>}

\* is_valid is entered; lines 51-54 read only the argument.
Enter(t, name) ==
    /\ pc[t] = "idle"
    /\ arg' = [arg EXCEPT ![t] = name]
    /\ seen' = [seen EXCEPT ![t] = None]
    /\ IF is_empty(name) \/ ~length_ok(name)
          \/ starts_with(name, "-") \/ ends_with(name, "-")
       THEN /\ ret' = [ret EXCEPT ![t] = Some(FALSE)]
            /\ pc' = [pc EXCEPT ![t] = "returned"]
       ELSE /\ ret' = [ret EXCEPT ![t] = None]
            /\ pc' = [pc EXCEPT ![t] = "get_or_init"]
    /\ UNCHANGED <<INSTANCE_cell, inits, building, seqVars, orderVars>>

\* get_or_init, fast path: a set cell is returned at once.
GetOrInit(t) ==
    /\ pc[t] = "get_or_init"
    /\ pc' = [pc EXCEPT ![t] = IF get(INSTANCE_cell) # None THEN "get"
                                ELSE "initialize"]
    /\ UNCHANGED <<INSTANCE_cell, inits, arg, building, seen, ret,
                   seqVars, orderVars>>

\* A plausible slip: check-then-act in place of the compare-and-swap, so a
\* caller that finds the cell Running runs the closure as well.
InitializeRacy(t) ==
    /\ pc[t] = "initialize"
    /\ IF INSTANCE_cell.state = "Complete"
       THEN /\ pc' = [pc EXCEPT ![t] = "get"]
            /\ UNCHANGED <<INSTANCE_cell, building>>
       ELSE /\ INSTANCE_cell' = [INSTANCE_cell EXCEPT !.state = "Running"]
            /\ building' = [building EXCEPT ![t] = {}]
            /\ pc' = [pc EXCEPT ![t] = "closure"]
    /\ UNCHANGED <<inits, arg, seen, ret, seqVars, orderVars>>

\* get_or_init, slow path: the caller that wins the compare-and-swap runs the
\* closure, a caller that finds the cell Running waits.
Initialize(t) ==
    /\ pc[t] = "initialize"
    /\ CASE INSTANCE_cell.state = "Incomplete" ->
                /\ INSTANCE_cell' = [INSTANCE_cell EXCEPT !.state = "Running"]
                /\ building' = [building EXCEPT ![t] = {}]
                /\ pc' = [pc EXCEPT ![t] = "closure"]
         [] INSTANCE_cell.state = "Running" ->
                /\ pc' = [pc EXCEPT ![t] = "wait"]
                /\ UNCHANGED <<INSTANCE_cell, building>>
         [] INSTANCE_cell.state = "Complete" ->
                /\ pc' = [pc EXCEPT ![t] = "get"]
                /\ UNCHANGED <<INSTANCE_cell, building>>
    /\ UNCHANGED <<inits, arg, seen, ret, seqVars, orderVars>>

\* The closure: HashSet::from inserts the five words one after the other
\* into a set only this thread holds.
ClosureInsert(t) ==
    /\ pc[t] = "closure"
    /\ Cardinality(building[t]) < Len(ReservedList)
    /\ building' = [building EXCEPT
                       ![t] = @ \cup {ReservedList[Cardinality(@) + 1]}]
    /\ UNCHANGED <<INSTANCE_cell, inits, pc, arg, seen, ret, seqVars, orderVars>>

\* The closure returns the finished set and it is written into the cell.
ClosureReturn(t) ==
    /\ pc[t] = "closure"
    /\ Cardinality(building[t]) = Len(ReservedList)
    /\ INSTANCE_cell' = [INSTANCE_cell EXCEPT !.value = Some(building[t])]
    /\ inits' = inits + 1
    /\ building' = [building EXCEPT ![t] = {}]
    /\ pc' = [pc EXCEPT ![t] = "complete"]
    /\ UNCHANGED <<arg, seen, ret, seqVars, orderVars>>

\* The cell is marked Complete and the waiters are woken.
Complete(t) ==
    /\ pc[t] = "complete"
    /\ INSTANCE_cell' = [INSTANCE_cell EXCEPT !.state = "Complete"]
    /\ pc' = [pc EXCEPT ![t] = "get"]
    /\ UNCHANGED <<inits, arg, building, seen, ret, seqVars, orderVars>>

\* A plausible slip: a waiter goes on after a wake-up without looking at the
\* state of the cell again.
WaitNoRecheck(t) ==
    /\ pc[t] = "wait"
    /\ pc' = [pc EXCEPT ![t] = "get"]
    /\ UNCHANGED <<INSTANCE_cell, inits, arg, building, seen, ret,
                   seqVars, orderVars>>

\* A waiter goes on once the cell is Complete.
Wait(t) ==
    /\ pc[t] = "wait"
    /\ INSTANCE_cell.state = "Complete"
    /\ pc' = [pc EXCEPT ![t] = "get"]
    /\ UNCHANGED <<INSTANCE_cell, inits, arg, building, seen, ret,
                   seqVars, orderVars>>

\* INSTANCE.get().expect("Reserved words not set")
Get(t) ==
    /\ pc[t] = "get"
    /\ seen' = [seen EXCEPT ![t] = get(INSTANCE_cell)]
    /\ pc' = [pc EXCEPT ![t] = IF get(INSTANCE_cell) = None THEN "panicked"
                                ELSE "contains"]
    /\ UNCHANGED <<INSTANCE_cell, inits, arg, building, ret, seqVars, orderVars>>

\* .contains(name), then lines 56-57, and is_valid returns.
Lookup(t) ==
    /\ pc[t] = "contains"
    /\ ret' = [ret EXCEPT ![t] =
                  Some(/\ arg[t] \notin seen[t].v
                       /\ all_valid_chars(arg[t])
                       /\ is_profanity_free(arg[t]))]
    /\ pc' = [pc EXCEPT ![t] = "returned"]
    /\ UNCHANGED <<INSTANCE_cell, inits, arg, building, seen, seqVars, orderVars>>

\* The caller has its result and may call again.
Return(t) ==
    /\ pc[t] = "returned"
    /\ pc' = [pc EXCEPT ![t] = "idle"]
    /\ arg' = [arg EXCEPT ![t] = <<>>]
    /\ seen' = [seen EXCEPT ![t] = None]
    /\ ret' = [ret EXCEPT ![t] = None]
    /\ UNCHANGED <<INSTANCE_cell, inits, building, seqVars, orderVars>>

NextConc ==
    \E t \in Threads :
        \/ \E name \in ConcNames : Enter(t, name)
        \/ GetOrInit(t)
        \/ Initialize(t)
        \/ ClosureInsert(t)
        \/ ClosureReturn(t)
        \/ Complete(t)
        \/ Wait(t)
        \/ Get(t)
        \/ Lookup(t)
        \/ Return(t)

SpecConc == Init /\ [][NextConc]_vars

\* Where a thread is once get_or_init has returned to it.
PastInit == {"get", "contains", "panicked"}

C7_State ==
    /\ inits <= 1
    /\ \A t \in Threads :
           /\ pc[t] \in PastInit => inits = 1
           /\ pc[t] = "contains" => seen[t] = Some(ReservedInit)
           /\ (pc[t] = "returned" /\ seen[t] # None) => seen[t] = Some(ReservedInit)

C7_Frozen ==
    INSTANCE_cell.state = "Complete" => INSTANCE_cell' = INSTANCE_cell

\* C7: under concurrent first calls the closure runs once, every lookup reads
\* the complete set of five words, and a cell that is set never changes.
C7_InitialisedOnce == [](C7_State) /\ [][C7_Frozen]_vars

C7_Witness ==
    \E t1, t2 \in Threads :
        /\ pc[t1] = "contains"
        /\ seen[t1] = Some(ReservedInit)
        /\ pc[t2] = "wait"
        /\ inits = 1

\* C10: the expect after get_or_init never fails, under any interleaving, and
\* every call that returns gives a boolean.
C10_ExpectNeverFails ==
    \A t \in Threads :
        /\ pc[t] # "panicked"
        /\ pc[t] = "returned" => (ret[t] # None /\ ret[t].v \in BOOLEAN)

C10_Witness ==
    \E t1, t2 \in Threads :
        /\ pc[t1] = "returned"
        /\ seen[t1] # None
        /\ ret[t1] = Some(FALSE)
        /\ arg[t1] = Shuttle
        /\ pc[t2] = "wait"

-----------------------------------------------------------------------------
(* The seven conjuncts of lines 51-57 evaluated one at a time in any       *)
(* order, with or without stopping at the first that fails.                *)

Pass(ok, cell) == [ok |-> ok, cell |-> cell]

\* Conjunct i of lines 51-57 on name, with the cell before and after it.
check(i, name, cell) ==
    CASE i = 1 -> Pass(~is_empty(name), cell)
      [] i = 2 -> Pass(length_ok(name), cell)
      [] i = 3 -> Pass(~starts_with(name, "-"), cell)
      [] i = 4 -> Pass(~ends_with(name, "-"), cell)
      [] i = 5 -> LET r == is_reserved(name, cell) IN Pass(~r.ret, r.cell)
      [] i = 6 -> Pass(all_valid_chars(name), cell)
      [] i = 7 -> Pass(is_profanity_free(name), cell)

Checks == 1..7

BeginReordered(s) ==
    /\ origin = None
    /\ origin' = [op |-> "reordered", input |-> s]
    /\ todo' = Checks
    /\ verdict' = TRUE
    /\ UNCHANGED <<INSTANCE_cell, inits, outcome, live, wire, shown, threadVars>>

EvalCheck(i) ==
    /\ origin # None
    /\ i \in todo
    /\ LET r == check(i, origin.input, INSTANCE_cell)
       IN  /\ verdict' = (verdict /\ r.ok)
           /\ INSTANCE_cell' = r.cell
           /\ inits' = inits + Ran(INSTANCE_cell, r.cell)
    /\ todo' = todo \ {i}
    /\ UNCHANGED <<origin, outcome, live, wire, shown, threadVars>>

\* The evaluation ends: every conjunct was evaluated, or one failed.
EndReordered ==
    /\ origin # None
    /\ todo = {} \/ ~verdict
    /\ origin' = None
    /\ todo' = {}
    /\ verdict' = TRUE
    /\ UNCHANGED <<INSTANCE_cell, inits, outcome, live, wire, shown, threadVars>>

NextOrder ==
    \/ \E s \in Names : BeginReordered(s)
    \/ \E i \in Checks : EvalCheck(i)
    \/ EndReordered

SpecOrder == Init /\ [][NextOrder]_vars

\* C8: whatever the order of evaluation, a conjunction that has failed or is
\* complete has the value is_valid gives, from a cell that is set or unset;
\* and the checks still to come give what they would have given before any
\* other check ran.
C8_OrderIndependent ==
    (origin # None /\ origin.op = "reordered") =>
        LET now   == is_valid(origin.input, INSTANCE_cell).ret
            fresh == is_valid(origin.input, EmptyCell).ret
        IN  /\ ~verdict => (~now /\ ~fresh)
            /\ todo = {} => (verdict = now /\ verdict = fresh)
            /\ \A i \in todo :
                   check(i, origin.input, INSTANCE_cell).ok
                       = check(i, origin.input, EmptyCell).ok

C8_Witness ==
    /\ origin # None
    /\ origin.op = "reordered"
    /\ todo = 1..6
    /\ ~verdict
    /\ FirstBroken(origin.input) = 7
    /\ INSTANCE_cell = EmptyCell

====
